---- MODULE Spec2Model ----
(***************************************************************************)
(* A model of the Google geocoder client of golang-geo.                    *)
(*                                                                         *)
(* The repository holds two revisions of the client: src/unnamed/part_000  *)
(* (Geocode and ReverseGeocode only, the address extractor returns a bare  *)
(* string) and src/google_geocoder.go (adds the signed "premier"           *)
(* operations, the address extractor returns an error).  The variable      *)
(* build says which revision is compiled.                                  *)
(*                                                                         *)
(* Representation.  Strings that end up in a URL, a key or a signature are *)
(* sequences of one-character strings, so prefixes and single characters   *)
(* can be inspected.  Texts that are only concatenated and compared (JSON  *)
(* string values, error texts) are TLA+ strings.  A float64 coordinate is  *)
(* an integer number of micro-degrees.  A response body is the JSON        *)
(* document it holds, as a tree; [t |-> "invalid"] is a body that is not   *)
(* JSON.                                                                   *)
(***************************************************************************)
EXTENDS Integers, Sequences, FiniteSets, TLC

VARIABLES
    build,                \* which source file is compiled
    hmacSha1,             \* which function of key and message HMAC-SHA1 is
    googleGeocodeURL,     \* package variable: the endpoint
    googleGeocodeURLbase, \* package variable: the path that is signed
    pc,                   \* position of the caller's goroutine
    op,                   \* the public operation in progress, with its arguments
    params,               \* argument of g.Request
    hashed,               \* bytes written to the HMAC by the operation in progress
    unsigned,             \* queryurl of the operation in progress before it is signed
    signature,            \* signaturebase64 of the operation in progress
    word1, word2,         \* the two machine words of the string read in Request
    wantUrl, wantUrl2,    \* the endpoint configured at each of the two loads
    fullUrl,              \* fullUrl of Request
    sentUrl,              \* URLs handed to client.Do by the operation in progress
    data,                 \* response body read by Request
    lowErr,               \* first error raised by validation, transport, decode or extract
    ret,                  \* what the operation returned
    ncalls,               \* operations started so far
    configured,           \* argument of the last SetGoogleGeocodeURL call
    prevSign              \* the signature before this one: path, query, key, signature

globals == <<build, hmacSha1, googleGeocodeURLbase>>
endpoint == <<googleGeocodeURL, configured>>
loads == <<word1, word2, wantUrl, wantUrl2, fullUrl>>
signing == <<hashed, unsigned, signature, prevSign>>

vars == <<globals, endpoint, loads, signing, pc, op, params, sentUrl, data, lowErr,
          ret, ncalls>>

(***************************************************************************)
(* Bounds of the model.                                                    *)
(***************************************************************************)
MaxCalls == 2

(***************************************************************************)
(* Strings.                                                                *)
(***************************************************************************)
StartsWith(s, p) == Len(p) <= Len(s) /\ SubSeq(s, 1, Len(p)) = p

\* strings.Replace(s, old, new, -1) for one-character old and new
Replace(s, old, new) == [i \in 1..Len(s) |-> IF s[i] = old THEN new ELSE s[i]]

Digits == <<"0","1","2","3","4","5","6","7","8","9">>

RECURSIVE FormatNat(_)
FormatNat(n) == IF n < 10 THEN <<Digits[n + 1]>>
                ELSE FormatNat(n \div 10) \o <<Digits[(n % 10) + 1]>>

RECURSIVE PadLeft(_, _)
PadLeft(s, w) == IF Len(s) >= w THEN s ELSE PadLeft(<<"0">> \o s, w)

FracDigits == 6
MicroPerUnit == 10 ^ FracDigits

\* fmt's %f of a float64: sign, integer part, ".", six fractional digits
FormatF(v) ==
    LET a == IF v < 0 THEN -v ELSE v
    IN  (IF v < 0 THEN <<"-">> ELSE <<>>)
        \o FormatNat(a \div MicroPerUnit) \o <<".">>
        \o PadLeft(FormatNat(a % MicroPerUnit), FracDigits)

Unreserved ==
    {"a","b","c","d","e","f","g","h","i","j","k","l","m","n","o","p","q","r",
     "s","t","u","v","w","x","y","z","A","B","C","D","E","F","G","H","I","J",
     "K","L","M","N","O","P","Q","R","S","T","U","V","W","X","Y","Z",
     "0","1","2","3","4","5","6","7","8","9","-","_",".","~"}

PercentEncode(c) ==
    CASE c = "&"  -> <<"%","2","6">>
      [] c = "="  -> <<"%","3","D">>
      [] c = "+"  -> <<"%","2","B">>
      [] c = "/"  -> <<"%","2","F">>
      [] c = ":"  -> <<"%","3","A">>
      [] c = "?"  -> <<"%","3","F">>
      [] c = ","  -> <<"%","2","C">>
      [] c = "\n" -> <<"%","0","A">>
      [] OTHER    -> <<"%","3","F">>

\* url.QueryEscape
RECURSIVE QueryEscape(_)
QueryEscape(s) ==
    IF s = <<>> THEN <<>>
    ELSE (IF Head(s) \in Unreserved THEN <<Head(s)>>
          ELSE IF Head(s) = " " THEN <<"+">>
          ELSE PercentEncode(Head(s)))
         \o QueryEscape(Tail(s))

ControlChars == {"\n", "\t", "\r"}

\* url.Parse, as http.NewRequest calls it: a control character anywhere, or a
\* colon before any scheme letter, is an error
UrlParseFails(u) ==
    \/ \E i \in 1..Len(u) : u[i] \in ControlChars
    \/ (Len(u) > 0 /\ u[1] = ":")

(***************************************************************************)
(* encoding/base64.                                                        *)
(***************************************************************************)
encodeStd ==
    <<"A","B","C","D","E","F","G","H","I","J","K","L","M","N","O","P","Q","R",
      "S","T","U","V","W","X","Y","Z","a","b","c","d","e","f","g","h","i","j",
      "k","l","m","n","o","p","q","r","s","t","u","v","w","x","y","z",
      "0","1","2","3","4","5","6","7","8","9","+","/">>

encodeURL ==
    <<"A","B","C","D","E","F","G","H","I","J","K","L","M","N","O","P","Q","R",
      "S","T","U","V","W","X","Y","Z","a","b","c","d","e","f","g","h","i","j",
      "k","l","m","n","o","p","q","r","s","t","u","v","w","x","y","z",
      "0","1","2","3","4","5","6","7","8","9","-","_">>

StdPadding == "="

Sextet(val, k) == (val \div (64 ^ k)) % 64

RECURSIVE EncodeToString(_, _)
EncodeToString(alphabet, src) ==
    IF Len(src) = 0 THEN <<>>
    ELSE IF Len(src) = 1 THEN
        LET val == src[1] * 65536
        IN  <<alphabet[Sextet(val, 3) + 1], alphabet[Sextet(val, 2) + 1],
              StdPadding, StdPadding>>
    ELSE IF Len(src) = 2 THEN
        LET val == src[1] * 65536 + src[2] * 256
        IN  <<alphabet[Sextet(val, 3) + 1], alphabet[Sextet(val, 2) + 1],
              alphabet[Sextet(val, 1) + 1], StdPadding>>
    ELSE
        LET val == src[1] * 65536 + src[2] * 256 + src[3]
        IN  <<alphabet[Sextet(val, 3) + 1], alphabet[Sextet(val, 2) + 1],
              alphabet[Sextet(val, 1) + 1], alphabet[Sextet(val, 0) + 1]>>
            \o EncodeToString(alphabet, SubSeq(src, 4, Len(src)))

InAlphabet(alphabet, c) == \E i \in 1..64 : alphabet[i] = c

DecodeChar(alphabet, c) == (CHOOSE i \in 1..64 : alphabet[i] = c) - 1

\* the bytes of one quantum of n characters (n = 2, 3 or 4)
DecodeQuantum(alphabet, q, n) ==
    LET d(i) == IF i <= n THEN DecodeChar(alphabet, q[i]) ELSE 0
        val  == d(1) * 262144 + d(2) * 4096 + d(3) * 64 + d(4)
        all  == <<(val \div 65536) % 256, (val \div 256) % 256, val % 256>>
    IN  SubSeq(all, 1, n - 1)

\* number of data characters of a quantum, 0 when the quantum is corrupt
QuantumLen(alphabet, q, last) ==
    IF \A i \in 1..4 : InAlphabet(alphabet, q[i]) THEN 4
    ELSE IF last /\ q[4] = StdPadding /\ \A i \in 1..3 : InAlphabet(alphabet, q[i]) THEN 3
    ELSE IF last /\ q[4] = StdPadding /\ q[3] = StdPadding
            /\ \A i \in 1..2 : InAlphabet(alphabet, q[i]) THEN 2
    ELSE 0

\* base64 Encoding.DecodeString, for input without line breaks
RECURSIVE DecodeString(_, _)
DecodeString(alphabet, s) ==
    IF Len(s) = 0 THEN [ok |-> TRUE, bytes |-> <<>>]
    ELSE IF Len(s) < 4 THEN [ok |-> FALSE, bytes |-> <<>>]
    ELSE
        LET q    == SubSeq(s, 1, 4)
            last == Len(s) = 4
            n    == QuantumLen(alphabet, q, last)
            rest == DecodeString(alphabet, SubSeq(s, 5, Len(s)))
        IN  IF n = 0 \/ ~rest.ok THEN [ok |-> FALSE, bytes |-> <<>>]
            ELSE [ok |-> TRUE, bytes |-> DecodeQuantum(alphabet, q, n) \o rest.bytes]

(***************************************************************************)
(* Errors.  An error value is a pointer: addr tells two errors with the    *)
(* same text apart.  Address 0 holds the package's sentinel; an error      *)
(* allocated during the n-th operation has address n.                      *)
(***************************************************************************)
NilErr == [type |-> "nil", text |-> "", addr |-> -1]

\* errors.New
ErrorsNew(text, a) == [type |-> "errors.errorString", text |-> text, addr |-> a]

\* var googleZeroResultsError = errors.New("ZERO_RESULTS"), allocated once at
\* package initialisation
googleZeroResultsError == ErrorsNew("ZERO_RESULTS", 0)

SyntaxError(a) == [type |-> "json.SyntaxError", text |-> "invalid character", addr |-> a]

UnmarshalTypeError(a) ==
    [type |-> "json.UnmarshalTypeError", text |-> "json: cannot unmarshal", addr |-> a]

CorruptInputError(a) ==
    [type |-> "base64.CorruptInputError", text |-> "illegal base64 data", addr |-> a]

\* what http.NewRequest, client.Do and ioutil.ReadAll fail with
ParseUrlError(a) == [type |-> "url.Error", text |-> "parse", addr |-> a]
DoError(a) == [type |-> "url.Error", text |-> "Get", addr |-> a]
ReadError(a) == [type |-> "net.OpError", text |-> "read", addr |-> a]

(***************************************************************************)
(* The response envelope and encoding/json.                                *)
(***************************************************************************)
JStr(s) == [t |-> "str", s |-> s]
JNum(n) == [t |-> "num", n |-> n]
JArr(a) == [t |-> "arr", a |-> a]
JObj(o) == [t |-> "obj", o |-> o]
JNull == [t |-> "null"]
JInvalid == [t |-> "invalid"]

\* encoding/json matches an object key to a field name ignoring case
FoldKey(k) ==
    CASE k = "Error_message" -> "error_message"
      [] k = "Status"        -> "status"
      [] k = "Results"       -> "results"
      [] k = "Geometry"      -> "geometry"
      [] k = "Location"      -> "location"
      [] k = "Lat"           -> "lat"
      [] k = "Lng"           -> "lng"
      [] OTHER               -> k

HasField(o, name) == \E k \in DOMAIN o : FoldKey(k) = FoldKey(name)

Field(o, name) == o[CHOOSE k \in DOMAIN o : FoldKey(k) = FoldKey(name)]

\* Each decoder gives the decoded value v and whether a value of the wrong JSON
\* type was met (bad); a JSON null leaves the zero value.
DecodeStringField(o, name) ==
    IF ~HasField(o, name) \/ Field(o, name).t = "null" THEN [v |-> "", bad |-> FALSE]
    ELSE IF Field(o, name).t = "str" THEN [v |-> Field(o, name).s, bad |-> FALSE]
    ELSE [v |-> "", bad |-> TRUE]

DecodeFloatField(o, name) ==
    IF ~HasField(o, name) \/ Field(o, name).t = "null" THEN [v |-> 0, bad |-> FALSE]
    ELSE IF Field(o, name).t = "num" THEN [v |-> Field(o, name).n, bad |-> FALSE]
    ELSE [v |-> 0, bad |-> TRUE]

ZeroLocation == [Lat |-> 0, Lng |-> 0]

DecodeLocation(o) ==
    IF ~HasField(o, "Location") \/ Field(o, "Location").t = "null"
    THEN [v |-> ZeroLocation, bad |-> FALSE]
    ELSE IF Field(o, "Location").t = "obj" THEN
        LET lat == DecodeFloatField(Field(o, "Location").o, "Lat")
            lng == DecodeFloatField(Field(o, "Location").o, "Lng")
        IN  [v |-> [Lat |-> lat.v, Lng |-> lng.v], bad |-> lat.bad \/ lng.bad]
    ELSE [v |-> ZeroLocation, bad |-> TRUE]

DecodeGeometry(o) ==
    IF ~HasField(o, "Geometry") \/ Field(o, "Geometry").t = "null"
    THEN [v |-> [Location |-> ZeroLocation], bad |-> FALSE]
    ELSE IF Field(o, "Geometry").t = "obj" THEN
        LET loc == DecodeLocation(Field(o, "Geometry").o)
        IN  [v |-> [Location |-> loc.v], bad |-> loc.bad]
    ELSE [v |-> [Location |-> ZeroLocation], bad |-> TRUE]

ZeroEntry == [FormattedAddress |-> "", Geometry |-> [Location |-> ZeroLocation]]

DecodeEntry(j) ==
    IF j.t = "null" THEN [v |-> ZeroEntry, bad |-> FALSE]
    ELSE IF j.t = "obj" THEN
        LET fa == DecodeStringField(j.o, "formatted_address")
            ge == DecodeGeometry(j.o)
        IN  [v |-> [FormattedAddress |-> fa.v, Geometry |-> ge.v], bad |-> fa.bad \/ ge.bad]
    ELSE [v |-> ZeroEntry, bad |-> TRUE]

DecodeResults(o) ==
    IF ~HasField(o, "Results") \/ Field(o, "Results").t = "null"
    THEN [v |-> <<>>, bad |-> FALSE]
    ELSE IF Field(o, "Results").t = "arr" THEN
        LET a == Field(o, "Results").a
        IN  [v |-> [i \in 1..Len(a) |-> DecodeEntry(a[i]).v],
             bad |-> \E i \in 1..Len(a) : DecodeEntry(a[i]).bad]
    ELSE [v |-> <<>>, bad |-> TRUE]

\* res := &googleGeocodeResponse{}
ZeroResponse == [isNil |-> FALSE, Error_message |-> "", Status |-> "", Results |-> <<>>]

\* what json.Unmarshal sets the pointer res to on a JSON null
NilResponse == [isNil |-> TRUE, Error_message |-> "", Status |-> "", Results |-> <<>>]

\* json.Unmarshal(data, &res): the error and the value res points to afterwards
Unmarshal(body, a) ==
    IF body.t = "invalid" THEN [err |-> SyntaxError(a), res |-> ZeroResponse]
    ELSE IF body.t = "null" THEN [err |-> NilErr, res |-> NilResponse]
    ELSE IF body.t = "obj" THEN
        LET em == DecodeStringField(body.o, "Error_message")
            st == DecodeStringField(body.o, "Status")
            rs == DecodeResults(body.o)
        IN  [err |-> IF em.bad \/ st.bad \/ rs.bad THEN UnmarshalTypeError(a) ELSE NilErr,
             res |-> [isNil |-> FALSE, Error_message |-> em.v, Status |-> st.v,
                      Results |-> rs.v]]
    ELSE [err |-> UnmarshalTypeError(a), res |-> ZeroResponse]

(***************************************************************************)
(* Points and results.                                                     *)
(***************************************************************************)
NilPoint == [isNil |-> TRUE, lat |-> 0, lng |-> 0]

\* &Point{lat: lat, lng: lng}
NewPoint(lat, lng) == [isNil |-> FALSE, lat |-> lat, lng |-> lng]

\* what an operation returns: p for the forward operations, s for the reverse ones
NoRet == [p |-> NilPoint, s |-> "", err |-> NilErr]

(***************************************************************************)
(* The extractors, after json.Unmarshal has given u: its error and the     *)
(* value res points to.  raised is the first error raised inside the       *)
(* extractor, panic a nil pointer dereference of res.                      *)
(***************************************************************************)
LatLngOf_last(u, a) ==
    IF u.err # NilErr
    THEN [lat |-> 0, lng |-> 0, err |-> u.err, raised |-> u.err, panic |-> FALSE]
    ELSE IF u.res.isNil
    THEN [lat |-> 0, lng |-> 0, err |-> NilErr, raised |-> NilErr, panic |-> TRUE]
    ELSE IF Len(u.res.Results) = 0
    THEN [lat |-> 0, lng |-> 0, err |-> googleZeroResultsError,
          raised |-> googleZeroResultsError, panic |-> FALSE]
    ELSE [lat |-> u.res.Results[Len(u.res.Results)].Geometry.Location.Lat,
          lng |-> u.res.Results[Len(u.res.Results)].Geometry.Location.Lng,
          err |-> NilErr, raised |-> NilErr, panic |-> FALSE]

\* extractLatLngFromResponse from "if err != nil" on
LatLngOf(u, a) ==
    IF u.err # NilErr
    THEN [lat |-> 0, lng |-> 0, err |-> u.err, raised |-> u.err, panic |-> FALSE]
    ELSE IF u.res.isNil
    THEN [lat |-> 0, lng |-> 0, err |-> NilErr, raised |-> NilErr, panic |-> TRUE]
    ELSE IF Len(u.res.Results) = 0
    THEN [lat |-> 0, lng |-> 0, err |-> googleZeroResultsError,
          raised |-> googleZeroResultsError, panic |-> FALSE]
    ELSE [lat |-> u.res.Results[1].Geometry.Location.Lat,
          lng |-> u.res.Results[1].Geometry.Location.Lng,
          err |-> NilErr, raised |-> NilErr, panic |-> FALSE]

extractLatLngFromResponse(body, a) == LatLngOf(Unmarshal(body, a), a)

\* extractAddressFromResponse of src/google_geocoder.go from "if err != nil" on
AddressOf(u, a) ==
    IF u.err # NilErr
    THEN [s |-> "", err |-> u.err, raised |-> u.err, panic |-> FALSE]
    ELSE IF u.res.isNil
    THEN [s |-> "", err |-> NilErr, raised |-> NilErr, panic |-> TRUE]
    ELSE IF Len(u.res.Results) = 0
    THEN [s |-> "",
          err |-> ErrorsNew("Failed: (" \o u.res.Status \o ") " \o u.res.Error_message, a),
          raised |-> ErrorsNew("Failed: (" \o u.res.Status \o ") " \o u.res.Error_message, a),
          panic |-> FALSE]
    ELSE [s |-> u.res.Results[1].FormattedAddress, err |-> NilErr,
          raised |-> NilErr, panic |-> FALSE]

extractAddressFromResponse(body, a) == AddressOf(Unmarshal(body, a), a)

\* extractAddressFromResponse of src/unnamed/part_000 from "if err != nil" on:
\* it returns a bare string, "" for errors
AddressOf_part000(u, a) ==
    IF u.err # NilErr
    THEN [s |-> "", err |-> NilErr, raised |-> u.err, panic |-> FALSE]
    ELSE IF u.res.isNil
    THEN [s |-> "", err |-> NilErr, raised |-> NilErr, panic |-> TRUE]
    ELSE IF Len(u.res.Results) = 0
    THEN [s |-> "", err |-> NilErr, raised |-> NilErr, panic |-> FALSE]
    ELSE [s |-> u.res.Results[1].FormattedAddress, err |-> NilErr,
          raised |-> NilErr, panic |-> FALSE]

extractAddressFromResponse_part000(body, a) == AddressOf_part000(Unmarshal(body, a), a)

(***************************************************************************)
(* Signing.                                                                *)
(***************************************************************************)
Sha1Size == 20

\* HMAC-SHA1 is not computed.  It is one of a family of functions of key and
\* message, fixed for a run: the MAC is one of these samples, a 3-byte pattern
\* repeated over the 20 bytes, chosen by the lengths of key and message.  The
\* patterns give the sextets 63 63 63 63, 62 62 62 62, 0 0 0 0 and 0 1 2 3.
MacPatterns == << <<255, 255, 255>>, <<251, 239, 190>>, <<0, 0, 0>>, <<0, 16, 131>> >>

MacSample(n) == [i \in 1..Sha1Size |-> MacPatterns[n][((i - 1) % 3) + 1]]

\* hmac.New(sha1.New, key), hash.Write(msg), hash.Sum(nil)
HmacSum(f, key, msg) == MacSample(((f + Len(key) + Len(msg)) % Len(MacPatterns)) + 1)

signaturebase64_padded(signaturebinary) ==
    Replace(Replace(EncodeToString(encodeURL, signaturebinary), "+", "-"), "/", "_")

\* base64.URLEncoding.EncodeToString and the three strings.Replace
signaturebase64(signaturebinary) ==
    Replace(Replace(Replace(EncodeToString(encodeURL, signaturebinary),
                            "+", "-"), "/", "_"), "=", ",")

(***************************************************************************)
(* Inputs.                                                                 *)
(***************************************************************************)
DefaultURL ==
    <<"h","t","t","p","s",":","/","/","m","a","p","s",".","g","o","o","g","l",
      "e","a","p","i","s",".","c","o","m","/","m","a","p","s","/","a","p","i",
      "/","g","e","o","c","o","d","e","/","j","s","o","n">>

DefaultURLbase ==
    <<"/","m","a","p","s","/","a","p","i","/","g","e","o","c","o","d","e","/",
      "j","s","o","n">>

MockURL == <<"h","t","t","p",":","/","/","m","o","c","k","/","j","s","o","n">>

\* a URL http.NewRequest rejects: "missing protocol scheme"
BadURL == <<":","b","a","d">>

SetterURLs == {MockURL, BadURL}

Queries == {<<>>, <<"a"," ","b">>}

Points == {[lat |-> 37330000, lng |-> -122030000], [lat |-> -5, lng |-> 0]}

ApiKeys == {<<>>, <<"k","&">>}

Usernames == {<<"u">>}

\* "/+8=" is standard base64; "-_8=" is the URL alphabet and "AQI" lacks its
\* padding
ValidKeys == {<<"/","+","8","=">>}
InvalidKeys == {<<"-","_","8","=">>, <<"A","Q","I">>}
Keys == ValidKeys \cup InvalidKeys

EntryA ==
    JObj([formatted_address |-> JStr("1 Infinite Loop"),
          geometry |-> JObj([location |->
              JObj([Lat |-> JNum(37330000), Lng |-> JNum(-122030000)])])])

EntryB ==
    JObj([formatted_address |-> JStr("2 Other Street"),
          geometry |-> JObj([location |->
              JObj([lat |-> JNum(-5), lng |-> JNum(1000000)])])])

\* response bodies: not JSON; null; two envelopes without results; one and two
\* results; results of the wrong type
Bodies ==
    << JInvalid,
       JNull,
       JObj([results |-> JArr(<<>>)]),
       JObj([status |-> JStr("REQUEST_DENIED"), error_message |-> JStr("bad key"),
             results |-> JArr(<<>>)]),
       JObj([status |-> JStr("OK"), results |-> JArr(<<EntryA>>)]),
       JObj([status |-> JStr("OK"), results |-> JArr(<<EntryB, EntryA>>)]),
       JObj([status |-> JStr("OK"), results |-> JStr("x")]) >>

\* the bytes that follow a string in memory, read when a torn read pairs a data
\* pointer with the length of a longer string
GarbageBytes == {"#", "\n"}

(***************************************************************************)
(* The state machine.                                                      *)
(***************************************************************************)
NoOp == [name |-> "none", text |-> <<>>, p |-> [lat |-> 0, lng |-> 0],
         user |-> <<>>, key |-> <<>>]

NoData == [t |-> "none"]

NoSign == [path |-> <<>>, query |-> <<>>, key |-> <<>>, sig |-> <<>>]

Init ==
    /\ \/ build = "part_000" /\ hmacSha1 = 0
       \/ build = "google_geocoder.go" /\ hmacSha1 \in 0..(Len(MacPatterns) - 1)
    /\ googleGeocodeURL = DefaultURL
    /\ googleGeocodeURLbase = DefaultURLbase
    /\ pc = "idle"
    /\ op = NoOp
    /\ params = <<>>
    /\ hashed = <<>>
    /\ unsigned = <<>>
    /\ signature = <<>>
    /\ word1 = <<>> /\ word2 = <<>>
    /\ wantUrl = <<>> /\ wantUrl2 = <<>>
    /\ fullUrl = <<>>
    /\ sentUrl = <<>>
    /\ data = NoData
    /\ lowErr = NilErr
    /\ ret = NoRet
    /\ ncalls = 0
    /\ configured = DefaultURL
    /\ prevSign = NoSign

SetGoogleGeocodeURL(newGeocodeURL) ==
    /\ pc # "panicked"
    /\ googleGeocodeURL' = newGeocodeURL
    /\ configured' = newGeocodeURL
    /\ UNCHANGED <<globals, loads, signing, pc, op, params, sentUrl, data, lowErr,
                   ret, ncalls>>

\* an operation returns err and the zero value
Fails(err) ==
    /\ pc' = "done"
    /\ lowErr' = err
    /\ ret' = [p |-> NilPoint, s |-> "", err |-> err]

\* an operation starts, from the state Return left
Begins(name, text, p, user, key) ==
    /\ pc = "idle"
    /\ ncalls < MaxCalls
    /\ ncalls' = ncalls + 1
    /\ op' = [name |-> name, text |-> text, p |-> p, user |-> user, key |-> key]
    /\ UNCHANGED <<globals, endpoint, loads, sentUrl, data>>

\* the operation goes on to g.Request(queryurl)
Requests(queryurl) ==
    /\ pc' = "load1"
    /\ params' = queryurl
    /\ UNCHANGED <<lowErr, ret>>

Geocode(query) ==
    /\ Begins("Geocode", query, NoOp.p, <<>>, <<>>)
    /\ Requests(<<"a","d","d","r","e","s","s","=">> \o QueryEscape(query))
    /\ UNCHANGED signing

ReverseGeocode_queryurl(b, s, apikey) ==
    IF apikey # <<>>
    THEN IF b = "part_000"
         THEN <<"k","e","y","=">> \o QueryEscape(apikey)
              \o <<"&","l","a","n","g","u","a","g","e","=","j","a","&","l","a","t",
                   "l","n","g","=">> \o s
         ELSE <<"l","a","n","g","u","a","g","e","=","j","a","&","l","a","t","l","n",
                "g","=">> \o s \o <<"&","k","e","y","=">> \o QueryEscape(apikey)
    ELSE <<"l","a","n","g","u","a","g","e","=","j","a","&","l","a","t","l","n","g",
           "=">> \o s

ReverseGeocode(p, apikey) ==
    /\ Begins("ReverseGeocode", <<>>, p, apikey, <<>>)
    /\ Requests(ReverseGeocode_queryurl(build, FormatF(p.lat) \o <<",">> \o FormatF(p.lng),
                                        apikey))
    /\ UNCHANGED signing

decodeKey_url(key) == DecodeString(encodeURL, key)

\* base64.StdEncoding.DecodeString(key)
decodeKey(key) == DecodeString(encodeStd, key)

SignedString_endpoint(base, url, queryurl) == url \o <<"?">> \o queryurl

\* s = googleGeocodeURLbase + "?" + queryurl
SignedString(base, url, queryurl) == base \o <<"?">> \o queryurl

\* from hash.Write to g.Request(queryurl)
Signed(queryurl, s, signaturebinary) ==
    /\ hashed' = s
    /\ unsigned' = queryurl
    /\ signature' = signaturebase64(signaturebinary)
    /\ Requests(queryurl \o <<"&","s","i","g","n","a","t","u","r","e","=">>
                \o signaturebase64(signaturebinary))
    /\ UNCHANGED prevSign

HashInput(queryurl) == SignedString(googleGeocodeURLbase, googleGeocodeURL, queryurl)

\* from "Calculate hash", once the key is decoded, to g.Request(queryurl)
Signs(queryurl, decodedkeyarray) ==
    Signed(queryurl, HashInput(queryurl),
           HmacSum(hmacSha1, decodedkeyarray, HashInput(queryurl)))

\* an operation that signs, after its query is built and its key decoded
Premier(queryurl, dec, err) ==
    IF err # NilErr
    THEN /\ Fails(err)
         /\ UNCHANGED <<signing, params>>
    ELSE Signs(queryurl, dec.bytes)

ReverseGeocodePremier_precheck(dec, a) ==
    IF ~dec.ok THEN CorruptInputError(a) ELSE NilErr

ReverseGeocodePremier(p, username, key) ==
    /\ build = "google_geocoder.go"
    /\ Begins("ReverseGeocodePremier", <<>>, p, username, key)
    /\ Premier(<<"l","a","n","g","u","a","g","e","=","j","a","&","l","a","t","l","n",
                 "g","=">> \o FormatF(p.lat) \o <<",">> \o FormatF(p.lng)
               \o <<"&","c","l","i","e","n","t","=">> \o username,
               decodeKey(key),
               ReverseGeocodePremier_precheck(decodeKey(key), ncalls + 1))

GeocodePremier_precheck_keyfirst(address, dec, a) ==
    IF ~dec.ok THEN CorruptInputError(a)
    ELSE IF address = <<>> THEN ErrorsNew("address is empty.", a)
    ELSE NilErr

\* the error GeocodePremier returns before it signs, NilErr when it goes on
GeocodePremier_precheck(address, dec, a) ==
    IF address = <<>> THEN ErrorsNew("address is empty.", a)
    ELSE IF ~dec.ok THEN CorruptInputError(a)
    ELSE NilErr

GeocodePremier(address, username, key) ==
    /\ build = "google_geocoder.go"
    /\ Begins("GeocodePremier", address, NoOp.p, username, key)
    /\ Premier(<<"l","a","n","g","u","a","g","e","=","j","a","&","a","d","d","r","e",
                 "s","s","=">> \o QueryEscape(address)
               \o <<"&","c","l","i","e","n","t","=">> \o username,
               decodeKey(key),
               GeocodePremier_precheck(address, decodeKey(key), ncalls + 1))

\* a string read while it is written: the data pointer of one value with the
\* length of the other
Torn(ptrOf, lenOf, g) ==
    IF Len(lenOf) <= Len(ptrOf) THEN SubSeq(ptrOf, 1, Len(lenOf))
    ELSE ptrOf \o [i \in 1..(Len(lenOf) - Len(ptrOf)) |-> g]

\* the values a read of googleGeocodeURL can give when its two words were
\* loaded from the values w1 and w2
LoadedStrings(w1, w2) ==
    IF w1 = w2 THEN {w1}
    ELSE {Torn(w1, w2, g) : g \in GarbageBytes} \cup {Torn(w2, w1, g) : g \in GarbageBytes}

Request_fullUrl_default(b, url, queryurl) ==
    IF b = "part_000"
    THEN DefaultURL \o <<"?","s","e","n","s","o","r","=","f","a","l","s","e","&">> \o queryurl
    ELSE DefaultURL \o <<"?">> \o queryurl

\* fmt.Sprintf("%s?sensor=false&%s", ...) in part_000, fmt.Sprintf("%s?%s", ...) in
\* google_geocoder.go
Request_fullUrl(b, url, queryurl) ==
    IF b = "part_000"
    THEN url \o <<"?","s","e","n","s","o","r","=","f","a","l","s","e","&">> \o queryurl
    ELSE url \o <<"?">> \o queryurl

\* Request: the first word of googleGeocodeURL is loaded
RequestLoad1 ==
    /\ pc = "load1"
    /\ pc' = "load2"
    /\ word1' = googleGeocodeURL
    /\ wantUrl' = configured
    /\ UNCHANGED <<globals, endpoint, signing, op, params, sentUrl, data, lowErr, ret,
                   ncalls, word2, wantUrl2, fullUrl>>

\* Request: the second word is loaded, fullUrl is built and http.NewRequest
\* parses it
RequestLoad2 ==
    /\ pc = "load2"
    /\ word2' = googleGeocodeURL
    /\ wantUrl2' = configured
    /\ \E url \in LoadedStrings(word1, googleGeocodeURL) :
           /\ fullUrl' = Request_fullUrl(build, url, params)
           /\ IF UrlParseFails(Request_fullUrl(build, url, params))
              THEN Fails(ParseUrlError(ncalls))
              ELSE /\ pc' = "do"
                   /\ UNCHANGED <<lowErr, ret>>
    /\ UNCHANGED <<globals, endpoint, signing, op, params, sentUrl, data, ncalls,
                   word1, wantUrl>>

\* where the operation is after client.Do failed
requestErr_retry == "do"

requestErr_return == "done"

\* Geocode and GeocodePremier after extractLatLngFromResponse has given r
PointResult(r) ==
    [p |-> IF r.err # NilErr THEN NilPoint ELSE NewPoint(r.lat, r.lng),
     s |-> "", err |-> r.err, raised |-> r.raised, panic |-> r.panic]

\* ReverseGeocode and ReverseGeocodePremier after extractAddressFromResponse has
\* given r
AddressResult(r) ==
    [p |-> NilPoint, s |-> r.s, err |-> r.err, raised |-> r.raised, panic |-> r.panic]

\* what the operation does once Request has returned the body
Extracts(b, name, body, a) ==
    IF name \in {"Geocode", "GeocodePremier"}
    THEN PointResult(extractLatLngFromResponse(body, a))
    ELSE IF b = "part_000"
    THEN AddressResult(extractAddressFromResponse_part000(body, a))
    ELSE AddressResult(extractAddressFromResponse(body, a))

\* the operation ends with r
Finishes(r) ==
    /\ pc' = IF r.panic THEN "panicked" ELSE "done"
    /\ lowErr' = r.raised
    /\ ret' = IF r.panic THEN NoRet ELSE [p |-> r.p, s |-> r.s, err |-> r.err]

\* client.Do(req) fails
ClientDoFails ==
    /\ pc = "do"
    /\ sentUrl' = Append(sentUrl, fullUrl)
    /\ pc' = requestErr_return
    /\ IF requestErr_return = "done"
       THEN /\ lowErr' = DoError(ncalls)
            /\ ret' = [p |-> NilPoint, s |-> "", err |-> DoError(ncalls)]
       ELSE UNCHANGED <<lowErr, ret>>
    /\ UNCHANGED <<globals, endpoint, loads, signing, op, params, data, ncalls>>

\* client.Do(req) answers and ioutil.ReadAll fails
ReadAllFails ==
    /\ pc = "do"
    /\ sentUrl' = Append(sentUrl, fullUrl)
    /\ Fails(ReadError(ncalls))
    /\ UNCHANGED <<globals, endpoint, loads, signing, op, params, data, ncalls>>

\* client.Do(req) answers, the body is read, and the operation extracts its
\* result from it
ClientDo(i) ==
    /\ pc = "do"
    /\ sentUrl' = Append(sentUrl, fullUrl)
    /\ data' = Bodies[i]
    /\ Finishes(Extracts(build, op.name, Bodies[i], ncalls))
    /\ UNCHANGED <<globals, endpoint, loads, signing, op, params, ncalls>>

\* the caller has the result and is ready for its next call
Return ==
    /\ pc = "done"
    /\ pc' = "idle"
    /\ op' = NoOp
    /\ params' = <<>>
    /\ hashed' = <<>>
    /\ unsigned' = <<>>
    /\ signature' = <<>>
    /\ prevSign' = IF signature = <<>> THEN prevSign
                   ELSE [path |-> googleGeocodeURLbase, query |-> unsigned,
                         key |-> decodeKey(op.key).bytes, sig |-> signature]
    /\ word1' = <<>> /\ word2' = <<>>
    /\ wantUrl' = <<>> /\ wantUrl2' = <<>>
    /\ fullUrl' = <<>>
    /\ sentUrl' = <<>>
    /\ data' = NoData
    /\ lowErr' = NilErr
    /\ ret' = NoRet
    /\ UNCHANGED <<globals, endpoint, ncalls>>

Next ==
    \/ \E u \in SetterURLs : SetGoogleGeocodeURL(u)
    \/ \E q \in Queries : Geocode(q)
    \/ \E p \in Points, k \in ApiKeys : ReverseGeocode(p, k)
    \/ \E p \in Points, u \in Usernames, k \in Keys : ReverseGeocodePremier(p, u, k)
    \/ \E q \in Queries, u \in Usernames, k \in Keys : GeocodePremier(q, u, k)
    \/ RequestLoad1
    \/ RequestLoad2
    \/ ClientDoFails
    \/ ReadAllFails
    \/ \E i \in DOMAIN Bodies : ClientDo(i)
    \/ Return

Spec == Init /\ [][Next]_vars

(***************************************************************************)
(* The claims.                                                             *)
(***************************************************************************)
Forward == op.name \in {"Geocode", "GeocodePremier"}
Reverse == op.name \in {"ReverseGeocode", "ReverseGeocodePremier"}
Signing == op.name \in {"GeocodePremier", "ReverseGeocodePremier"}

\* the operation in progress has returned after reading a response body
Answered == pc = "done" /\ data # NoData

\* u is a successful decode into an envelope
DecodedOk(u) == u.err = NilErr /\ ~u.res.isNil

TransportOrParseTypes ==
    {"json.SyntaxError", "json.UnmarshalTypeError", "url.Error", "net.OpError"}

NoResultsOutcome(u) ==
    (DecodedOk(u) /\ Len(u.res.Results) = 0) =>
        /\ ret.err # NilErr
        /\ ret.p = NilPoint
        /\ ret.s = ""
        /\ ret.err.type \notin TransportOrParseTypes

\* C1: in every public operation, a body that decodes successfully with an
\* empty results array gives a non-nil error and no success value, and that
\* error is neither a parse error nor a transport error.
C1_EmptyResultsIsAnError == Answered => NoResultsOutcome(Unmarshal(data, 0))

FirstEntryOrSentinel(u) ==
    DecodedOk(u) =>
        IF Len(u.res.Results) > 0
        THEN ret = [p |-> [isNil |-> FALSE,
                           lat |-> u.res.Results[1].Geometry.Location.Lat,
                           lng |-> u.res.Results[1].Geometry.Location.Lng],
                    s |-> "", err |-> NilErr]
        ELSE ret = [p |-> NilPoint, s |-> "",
                    err |-> [type |-> "errors.errorString", text |-> "ZERO_RESULTS",
                             addr |-> 0]]

FirstAddressOrFailed(u) ==
    DecodedOk(u) =>
        IF Len(u.res.Results) > 0
        THEN ret = [p |-> NilPoint, s |-> u.res.Results[1].FormattedAddress,
                    err |-> NilErr]
        ELSE /\ ret.s = ""
             /\ ret.err.text = "Failed: (" \o u.res.Status \o ") " \o u.res.Error_message

\* C3: for a body that decodes successfully, ReverseGeocode and
\* ReverseGeocodePremier return results[0].formattedAddress and a nil error
\* when results is non-empty, and an error with the text
\* "Failed: (<status>) <errorMessage>" when it is empty.
C3_ReverseFirstAddressOrFailed ==
    (Answered /\ Reverse) => FirstAddressOrFailed(Unmarshal(data, 0))

\* C4: the first failure of validation, transport, decode or extract is what
\* the caller gets, with the zero value beside it; a body that is not JSON
\* gives the caller json's syntax error, on the forward and the reverse path.
C4_FirstFailureIsReturned ==
    /\ (pc = "done" /\ lowErr # NilErr) => ret = [p |-> NilPoint, s |-> "", err |-> lowErr]
    /\ (Answered /\ data = JInvalid) =>
           /\ ret.err.type = "json.SyntaxError"
           /\ ret.p = NilPoint
           /\ ret.s = ""

\* g.Request was never called by the operation in progress
NoRequest == params = <<>> /\ fullUrl = <<>> /\ sentUrl = <<>>

\* C5: GeocodePremier with an empty address returns the "address is empty."
\* error and never calls Request, whatever the client id and the key, a key
\* that is not base64 included.
C5_EmptyAddressFailsFirst ==
    (op.name = "GeocodePremier" /\ op.text = <<>>) =>
        /\ pc = "done"
        /\ ret.p = NilPoint
        /\ ret.err.type = "errors.errorString"
        /\ ret.err.text = "address is empty."
        /\ NoRequest

C5_Witness ==
    /\ op.name = "GeocodePremier" /\ op.text = <<>> /\ op.key \in InvalidKeys
    /\ pc = "done"

\* C6: GeocodePremier with a non-empty address, and ReverseGeocodePremier,
\* given a key that is not standard base64, return base64's error, never call
\* Request and produce no signature.
C6_InvalidKeyFailsBeforeRequest ==
    (Signing /\ op.key \in InvalidKeys
       /\ ~(op.name = "GeocodePremier" /\ op.text = <<>>)) =>
        /\ pc = "done"
        /\ ret.p = NilPoint
        /\ ret.s = ""
        /\ ret.err.type = "base64.CorruptInputError"
        /\ NoRequest
        /\ hashed = <<>>
        /\ signature = <<>>

C6_Witness ==
    /\ op.name = "ReverseGeocodePremier" /\ op.key = <<"-","_","8","=">>
    /\ pc = "done"
    /\ ret.err.type = "base64.CorruptInputError"

\* C7: the same path, unsigned query and decoded key give the same signature
\* as in the signing before, and a signature holds none of the characters
\* "+", "/" and "=": its padding is ",".
C7_SignatureDeterministicAndUrlSafe ==
    (signature # <<>>) =>
        /\ \A i \in 1..Len(signature) : signature[i] \notin {"+", "/", "="}
        /\ signature[Len(signature)] = ","
        /\ (/\ prevSign.path = googleGeocodeURLbase
            /\ prevSign.query = unsigned
            /\ prevSign.key = DecodeString(encodeStd, op.key).bytes)
               => prevSign.sig = signature

C7_Witness ==
    /\ signature # <<>>
    /\ prevSign.query = unsigned
    /\ prevSign.sig = signature
    /\ \E i \in 1..Len(signature) : signature[i] \in {"-", "_"}

\* C8, as stated: every request is sent to a URL that starts with an endpoint
\* value that was configured while Request read the endpoint.
C8_AsStated ==
    /\ googleGeocodeURL = configured
    /\ (fullUrl # <<>>) => (StartsWith(fullUrl, wantUrl) \/ StartsWith(fullUrl, wantUrl2))
    /\ \A i \in 1..Len(sentUrl) : sentUrl[i] = fullUrl

\* C8, amended: the endpoint is the production URL until the first setter
\* call and the argument of the last call after it; a request whose read of
\* the endpoint no setter call overlaps is sent to a URL that starts with the
\* endpoint configured at that read, whatever setter calls follow while it
\* is in flight.
C8_RequestUsesEndpointAtRead ==
    /\ googleGeocodeURL = configured
    /\ (fullUrl # <<>> /\ wantUrl = wantUrl2) => StartsWith(fullUrl, wantUrl)
    /\ \A i \in 1..Len(sentUrl) : sentUrl[i] = fullUrl

C8_Witness ==
    /\ pc = "done"
    /\ wantUrl = MockURL /\ wantUrl2 = MockURL
    /\ googleGeocodeURL = BadURL
    /\ Len(sentUrl) = 1
    /\ StartsWith(sentUrl[1], MockURL)

\* the operation in progress passed input validation and key decoding
ValidInput ==
    /\ op.name # "none"
    /\ ~(op.name = "GeocodePremier" /\ op.text = <<>>)
    /\ Signing => op.key \notin InvalidKeys

Ended == pc \in {"done", "panicked"}

\* C9, as stated: at most one GET per operation, and exactly one when input
\* validation and key decoding pass.
C9_AsStated ==
    /\ Len(sentUrl) <= 1
    /\ (Ended /\ ValidInput) => Len(sentUrl) = 1

\* C9, amended: at most one GET per operation; none when input validation,
\* key decoding or http.NewRequest fails, and exactly one otherwise, also
\* when the transport or the decoding fails after it.
C9_OneGetUnlessRejected ==
    /\ Len(sentUrl) <= 1
    /\ (Ended /\ op.name # "none") =>
           (Len(sentUrl) = 1 <=>
               (ValidInput /\ ~(ret.err.type = "url.Error" /\ ret.err.text = "parse")))

C9_Witness ==
    /\ pc = "done"
    /\ ValidInput
    /\ Len(sentUrl) = 1
    /\ ret.err.type = "url.Error" /\ ret.err.text = "Get"

ExpectedUnsigned ==
    IF op.name = "GeocodePremier"
    THEN <<"l","a","n","g","u","a","g","e","=","j","a","&","a","d","d","r","e","s",
           "s","=">> \o QueryEscape(op.text) \o <<"&","c","l","i","e","n","t","=">>
         \o op.user
    ELSE <<"l","a","n","g","u","a","g","e","=","j","a","&","l","a","t","l","n","g",
           "=">> \o FormatF(op.p.lat) \o <<",">> \o FormatF(op.p.lng)
         \o <<"&","c","l","i","e","n","t","=">> \o op.user

\* C10: what is signed is "/maps/api/geocode/json" + "?" + the unsigned query,
\* what Request gets is that unsigned query + "&signature=" + the signature,
\* and no setter call changes the signed path.
C10_SignedPathIsFixed ==
    /\ googleGeocodeURLbase =
           <<"/","m","a","p","s","/","a","p","i","/","g","e","o","c","o","d","e","/",
             "j","s","o","n">>
    /\ (signature # <<>>) =>
           /\ unsigned = ExpectedUnsigned
           /\ hashed = googleGeocodeURLbase \o <<"?">> \o unsigned
           /\ params = unsigned \o <<"&","s","i","g","n","a","t","u","r","e","=">>
                       \o signature

C10_Witness ==
    /\ signature # <<>>
    /\ googleGeocodeURL = MockURL
    /\ Len(sentUrl) = 1
    /\ StartsWith(sentUrl[1], MockURL)
    /\ StartsWith(hashed, DefaultURLbase)

====
